---------------------------- MODULE Spec2Model ----------------------------
(***************************************************************************)
(* Model of the dashboard page (src/src/pages/Dashboard.tsx): the          *)
(* recurrence window test isRecurrenceActiveForMonth, the aggregation of   *)
(* fetchDashboardData and the life cycle of its fetch batches.             *)
(*                                                                         *)
(* Encoding of JavaScript values:                                          *)
(*   - a nullable value is Null (the empty tuple) or Some(v) = <<v>>;      *)
(*   - an ISO date string 'yyyy-MM-dd' is the tuple <<y, m, d>> of its     *)
(*     fields, an ISO timestamp string is <<y, m, d, t, o>> with t the     *)
(*     time of day in ticks (a day has DayTicks ticks instead of 86400000  *)
(*     ms) and o the offset from UTC it is written with, in ticks;         *)
(*   - a Date is the record [y, m, d, t] of its fields in the time zone    *)
(*     of the process (timeZone, a fixed offset from UTC in ticks) and     *)
(*     getTime gives its position on the local time line, in ticks.        *)
(*                                                                         *)
(* Specifications:                                                         *)
(*   Spec      the component: triggers, reads, completion of batches;      *)
(*   SpecFair  Spec, with every started batch settling in the end;         *)
(*   SpecAgg   one batch, over many implementation lists and dates;        *)
(*   SpecData  one batch, over many results of each single read;           *)
(*   SpecEval  one call of isRecurrenceActiveForMonth, over many records;  *)
(*   SpecDb    statements on implementation_billings under its policies;   *)
(*   SpecRef   the same with inserts and deletes of implementations;       *)
(*   SpecAuth  the login form of pages/Auth.tsx.                           *)
(***************************************************************************)
EXTENDS Integers, Sequences, FiniteSets

VARIABLES
    user,            \* useAuth().user: Null or Some(user id)
    stats,           \* useState<DashboardStats>
    chartData,       \* useState<ChartData[]>
    recurrenceData,  \* useState<RecurrenceData[]>
    todayTasks,      \* useState<Task[]>
    loading,         \* useState(true)
    batches,         \* the invocations of fetchDashboardData, by number, with
                     \* the awaited results and the implementation list after the pass
    impl,            \* argument of a single call of isRecurrenceActiveForMonth
    monthDate,       \* argument of a single call of isRecurrenceActiveForMonth
    evalDone,        \* whether that call has returned
    evalResult,      \* what it returned
    implementations,          \* table public.implementations (id, user_id)
    implementation_billings,  \* table public.implementation_billings
    request,         \* the last statement on implementation_billings and its outcome
    email,           \* Auth: useState('') of the email input, a tuple of characters
    password,        \* Auth: useState('') of the password input, a tuple of characters
    authLoading,     \* Auth: useState(false), the form's loading
    errors,          \* Auth: useState({}), the field errors
    signIns,         \* Auth: the calls of signIn, in order, with their state
    toasts,          \* Auth: the toasts shown, in order
    location,        \* the route on display
    timeZone         \* offset of the time zone of the process from UTC, in ticks

vars == <<user, stats, chartData, recurrenceData, todayTasks, loading, batches,
          impl, monthDate, evalDone, evalResult,
          implementations, implementation_billings, request,
          email, password, authLoading, errors, signIns, toasts, location,
          timeZone>>

dashVars == <<user, stats, chartData, recurrenceData, todayTasks, loading, batches>>
evalVars == <<impl, monthDate, evalDone, evalResult>>
dbVars == <<implementations, implementation_billings, request>>
authVars == <<email, password, authLoading, errors, signIns, toasts, location>>
envVars == <<timeZone>>

-----------------------------------------------------------------------------
(* Bounds *)

DayTicks == 2      \* ticks in a day
MaxMonth == 3      \* a single call's dates lie in months 1..MaxMonth of 2024
MaxAmount == 2     \* recurring amounts are null or in -1..MaxAmount
MaxBatches == 2    \* invocations of fetchDashboardData in one behaviour
MaxImpls == 2      \* rows of the implementations read
MaxTasks == 3      \* rows of the completed-tasks read
MaxProspects == 8  \* rows of the prospects table
MaxBillings == 2   \* ids of implementation_billings rows
MaxImplementations == 2  \* ids of implementations rows
MaxPassword == 7   \* characters of a typed password
MaxSignIns == 2    \* calls of signIn

-----------------------------------------------------------------------------
(* JavaScript values *)

Null == <<>>
Some(v) == <<v>>
Val(n) == n[1]

\* the number NaN
NotANumber == <<"number", "NaN">>

\* a string that holds no number, such as 'NaN' or 'abc' (its characters are
\* not modelled)
Text == <<"string", "text">>

\* typeof v === 'number', NaN excluded
IsNumber(v) == Len(v) = 1

\* Boolean(v): null, 0 and NaN are falsy; every other number and every
\* non-empty string is truthy
TruthyNum(n) == IF Len(n) = 2 THEN n = Text ELSE n # Null /\ Val(n) # 0

\* Boolean(s) of a string | null: null (and '') are falsy
TruthyStr(s) == s # Null

\* n || 0, for a count
OrZero(n) == IF TruthyNum(n) THEN Val(n) ELSE 0

\* v || 0, as a JavaScript value
ValueOrZero(v) == IF TruthyNum(v) THEN v ELSE Some(0)

\* a + b: numbers are added; with a string operand the result is a string
Plus(a, b) ==
    IF IsNumber(a) /\ IsNumber(b) THEN Some(Val(a) + Val(b))
    ELSE IF a = Text \/ b = Text THEN Text
    ELSE NotANumber

\* a || []
OrEmpty(a) == IF a # Null THEN Val(a) ELSE <<>>

-----------------------------------------------------------------------------
(* date-fns *)

isLeapYear(y) == (y % 4 = 0 /\ y % 100 # 0) \/ y % 400 = 0

getDaysInMonth(y, m) ==
    IF m = 2 THEN (IF isLeapYear(y) THEN 29 ELSE 28)
    ELSE IF m \in {4, 6, 9, 11} THEN 30 ELSE 31

\* days from 1970-01-01 to the civil date y-m-d
DaysFromCivil(y, m, d) ==
    LET yy  == IF m <= 2 THEN y - 1 ELSE y
        era == yy \div 400
        yoe == yy - era * 400
        mp  == IF m > 2 THEN m - 3 ELSE m + 9
        doy == (153 * mp + 2) \div 5 + d - 1
        doe == yoe * 365 + yoe \div 4 - yoe \div 100 + doy
    IN  era * 146097 + doe - 719468

\* the civil date <<y, m, d>> that lies z days after 1970-01-01
CivilFromDays(z) ==
    LET zz  == z + 719468
        era == zz \div 146097
        doe == zz - era * 146097
        yoe == (doe - doe \div 1460 + doe \div 36524 - doe \div 146096) \div 365
        doy == doe - (365 * yoe + yoe \div 4 - yoe \div 100)
        mp  == (5 * doy + 2) \div 153
        d   == doy - (153 * mp + 2) \div 5 + 1
        m   == IF mp < 10 THEN mp + 3 ELSE mp - 9
    IN  <<(yoe + era * 400) + (IF m <= 2 THEN 1 ELSE 0), m, d>>

\* Date.prototype.getTime, in ticks
getTime(date) == DaysFromCivil(date.y, date.m, date.d) * DayTicks + date.t

\* parseISO: 'yyyy-MM-dd' is local midnight, a timestamp without an offset
\* is local time, and a timestamp with an offset is the instant it denotes,
\* whose fields are then those of the time zone of the process
parseISO(s) ==
    IF Len(s) < 5
    THEN [y |-> s[1], m |-> s[2], d |-> s[3], t |-> IF Len(s) >= 4 THEN s[4] ELSE 0]
    ELSE LET ticks == DaysFromCivil(s[1], s[2], s[3]) * DayTicks + s[4] - s[5] + timeZone
             c     == CivilFromDays(ticks \div DayTicks)
         IN  [y |-> c[1], m |-> c[2], d |-> c[3], t |-> ticks % DayTicks]

\* format(date, 'yyyy-MM-dd')
formatISO(date) == <<date.y, date.m, date.d>>

startOfDay(date) == [date EXCEPT !.t = 0]

\* faulty variant: the month start is not normalised
startOfMonth_Unnormalised(date) == date

startOfMonth(date) == [date EXCEPT !.d = 1, !.t = 0]

\* faulty variant: the month's upper bound is its first day
endOfMonth_FirstDay(date) == [date EXCEPT !.d = 1, !.t = DayTicks - 1]

endOfMonth(date) ==
    [date EXCEPT !.d = getDaysInMonth(date.y, date.m), !.t = DayTicks - 1]

isAfter(a, b) == getTime(a) > getTime(b)

\* faulty variant: a date equal to the bound counts as before it
isBefore_OrEqual(a, b) == getTime(a) <= getTime(b)

isBefore(a, b) == getTime(a) < getTime(b)

-----------------------------------------------------------------------------
(* isRecurrenceActiveForMonth *)

\* faulty variant: the end date is never looked at
isRecurrenceActiveForMonth_NoEnd(i, md) ==
    IF ~TruthyNum(i.recurrence_value) \/ i.status # "active" THEN FALSE
    ELSE
    LET startDate == IF TruthyStr(i.recurrence_start_date)
                     THEN startOfDay(parseISO(Val(i.recurrence_start_date)))
                     ELSE startOfDay(parseISO(i.created_at))
    IN  ~isAfter(startDate, endOfMonth(md))

\* faulty variant: the status is never looked at
isRecurrenceActiveForMonth_AnyStatus(i, md) ==
    IF ~TruthyNum(i.recurrence_value) THEN FALSE
    ELSE
    LET startDate == IF TruthyStr(i.recurrence_start_date)
                     THEN startOfDay(parseISO(Val(i.recurrence_start_date)))
                     ELSE startOfDay(parseISO(i.created_at))
    IN  /\ ~isAfter(startDate, endOfMonth(md))
        /\ ~(/\ TruthyStr(i.recurrence_end_date)
             /\ isBefore(startOfDay(parseISO(Val(i.recurrence_end_date))), startOfMonth(md)))

\* faulty variant: the creation date is the start even when a start date is given
isRecurrenceActiveForMonth_CreatedOnly(i, md) ==
    IF ~TruthyNum(i.recurrence_value) \/ i.status # "active" THEN FALSE
    ELSE
    LET startDate == startOfDay(parseISO(i.created_at))
    IN  /\ ~isAfter(startDate, endOfMonth(md))
        /\ ~(/\ TruthyStr(i.recurrence_end_date)
             /\ isBefore(startOfDay(parseISO(Val(i.recurrence_end_date))), startOfMonth(md)))

isRecurrenceActiveForMonth(i, md) ==
    IF ~TruthyNum(i.recurrence_value) \/ i.status # "active" THEN FALSE
    ELSE
    LET monthStart == startOfMonth(md)
        monthEnd   == endOfMonth(md)
        startDate  == IF TruthyStr(i.recurrence_start_date)
                      THEN startOfDay(parseISO(Val(i.recurrence_start_date)))
                      ELSE startOfDay(parseISO(i.created_at))
    IN  IF isAfter(startDate, monthEnd) THEN FALSE
        ELSE IF TruthyStr(i.recurrence_end_date)
                /\ isBefore(startOfDay(parseISO(Val(i.recurrence_end_date))), monthStart)
             THEN FALSE
             ELSE TRUE

-----------------------------------------------------------------------------
(* date-fns, the part fetchDashboardData uses *)

\* subDays(date, n): n calendar days earlier, same time of day
subDays(date, n) ==
    LET c == CivilFromDays(DaysFromCivil(date.y, date.m, date.d) - n)
    IN  [y |-> c[1], m |-> c[2], d |-> c[3], t |-> date.t]

\* faulty variant: the day of month is not clamped, so a day past the end of the
\* month reached rolls over into the next month
subMonths_NoClamp(date, n) ==
    LET total == date.y * 12 + (date.m - 1) - n
        yy    == total \div 12
        mm    == (total % 12) + 1
        dim   == getDaysInMonth(yy, mm)
    IN  IF date.d <= dim
        THEN [y |-> yy, m |-> mm, d |-> date.d, t |-> date.t]
        ELSE [y |-> (total + 1) \div 12, m |-> ((total + 1) % 12) + 1,
              d |-> date.d - dim, t |-> date.t]

\* subMonths(date, n): n months earlier, the day of month clamped to the
\* length of the month reached, same time of day
subMonths(date, n) ==
    LET total == date.y * 12 + (date.m - 1) - n
        yy    == total \div 12
        mm    == (total % 12) + 1
        dim   == getDaysInMonth(yy, mm)
    IN  [y |-> yy, m |-> mm, d |-> IF date.d >= dim THEN dim ELSE date.d, t |-> date.t]

\* format(date, 'EEE'): the day of the week, 0 = Sunday
formatEEE(date) == (DaysFromCivil(date.y, date.m, date.d) + 4) % 7

\* format(date, 'MMM'): the month, 1 = January
formatMMM(date) == date.m

-----------------------------------------------------------------------------
(* fetchDashboardData: the aggregation over one batch's results *)

NumReads == 8

RECURSIVE Reduce(_, _)
\* reduce((acc, i) => acc + (i.recurrence_value || 0), acc) over impls
Reduce(impls, acc) ==
    IF impls = <<>> THEN acc
    ELSE Reduce(Tail(impls), Plus(acc, ValueOrZero(Head(impls).recurrence_value)))

\* implementations.reduce((acc, i) => acc + (i.recurrence_value || 0), 0)
SumRecurrence(impls) == Reduce(impls, Some(0))

\* implementations.filter(impl => isRecurrenceActiveForMonth(impl, md))
ActiveFor(impls, md) ==
    LET Test(i) == isRecurrenceActiveForMonth(i, md)
    IN  SelectSeq(impls, Test)

\* faulty variant: the sum runs over every implementation
totalRecurrence_Unfiltered(impls, today) == SumRecurrence(impls)

totalRecurrence(impls, today) == SumRecurrence(ActiveFor(impls, today))

\* faulty variant: every undelivered row is counted, whatever its status
deliveryPendingCount_AnyStatus(impls) ==
    Cardinality({k \in 1..Len(impls) : ~impls[k].delivery_completed})

deliveryPendingCount(impls) ==
    LET Test(i) == i.status = "active" /\ ~i.delivery_completed
    IN  Len(SelectSeq(impls, Test))

\* faulty variant: the window ends yesterday
last7Days_EndsYesterday(today) == [i \in 1..7 |-> formatISO(subDays(today, 8 - i))]

last7Days(today) == [i \in 1..7 |-> formatISO(subDays(today, 7 - i))]

\* tasksByDate[dateStr] || 0
tasksByDate(rows, dateStr) ==
    LET Test(r) == r.scheduled_date = dateStr
    IN  Len(SelectSeq(rows, Test))

chartDataProcessed(rows, today) ==
    [i \in 1..7 |->
        LET dateStr == last7Days(today)[i]
        IN  [day |-> formatEEE(parseISO(dateStr)),
             date |-> dateStr,
             completed |-> tasksByDate(rows, dateStr)]]

\* faulty variant: the six months end at the month before today's
recurrenceChartData_EndsLastMonth(impls, today) ==
    [i \in 1..6 |->
        LET month == subMonths(today, 7 - i)
        IN  [month |-> formatMMM(month),
             value |-> SumRecurrence(ActiveFor(impls, month))]]

recurrenceChartData(impls, today) ==
    [i \in 1..6 |->
        LET month == subMonths(today, 6 - i)
        IN  [month |-> formatMMM(month),
             value |-> SumRecurrence(ActiveFor(impls, month))]]

\* t.steps ? (typeof t.steps === 'string' ? JSON.parse(t.steps) : t.steps) : null
\* steps is "null", "array", "json" (a string holding an array) or
\* "malformed" (a string JSON.parse throws on)
parseSteps(steps) == IF steps = "json" THEN "array" ELSE steps

parsedTasks(rows) == [i \in 1..Len(rows) |-> [rows[i] EXCEPT !.steps = parseSteps(@)]]

\* whether the try block throws before it reaches the setters
Throws(r) ==
    \E i \in 1..Len(OrEmpty(r.tasksTodayData)) :
        OrEmpty(r.tasksTodayData)[i].steps = "malformed"

\* the argument of setStats
newStats(r, today) ==
    [tasksToday          |-> OrZero(r.tasksTodayCount),
     tasksCompletedToday |-> OrZero(r.tasksCompletedToday),
     tasksCompletedWeek  |-> OrZero(r.tasksCompletedWeek),
     prospectsTotal      |-> OrZero(r.prospectsTotal),
     prospectsConverted  |-> OrZero(r.prospectsConverted),
     totalRecurrence     |-> totalRecurrence(OrEmpty(r.implementationsData), today),
     deliveryPendingCount |-> deliveryPendingCount(OrEmpty(r.implementationsData))]

\* what the four setters of one batch write, as one value
Snapshot(r, today) ==
    [stats          |-> newStats(r, today),
     todayTasks     |-> parsedTasks(OrEmpty(r.tasksTodayData)),
     chartData      |-> chartDataProcessed(OrEmpty(r.tasksLast7Days), today),
     recurrenceData |-> recurrenceChartData(OrEmpty(r.implementationsData), today)]

\* the snapshot on display
Displayed ==
    [stats |-> stats, todayTasks |-> todayTasks,
     chartData |-> chartData, recurrenceData |-> recurrenceData]

\* the useState initial values
InitialSnapshot ==
    [stats |-> [tasksToday |-> 0, tasksCompletedToday |-> 0, tasksCompletedWeek |-> 0,
                prospectsTotal |-> 0, prospectsConverted |-> 0,
                totalRecurrence |-> Some(0), deliveryPendingCount |-> 0],
     todayTasks |-> <<>>, chartData |-> <<>>, recurrenceData |-> <<>>]

-----------------------------------------------------------------------------
(* Inputs of a single call of isRecurrenceActiveForMonth *)

AmountSet == {Null} \cup {Some(a) : a \in -1..MaxAmount}

StatusSet == {"active", "paused"}

EvalDays(m) == {1, 15, getDaysInMonth(2024, m)}

EvalDates == UNION {{<<2024, m, d>> : d \in EvalDays(m)} : m \in 1..MaxMonth}

\* created_at is written in UTC
EvalTimestamps == {d \o <<t, 0>> : d \in EvalDates, t \in {0, DayTicks - 1}}

\* the time zones of the process: behind UTC, UTC, ahead of UTC
Zones == {-1, 0, 1}

EvalImpls ==
    [id : {1},
     recurrence_value : AmountSet,
     recurrence_start_date : {Null} \cup {Some(d) : d \in EvalDates},
     recurrence_end_date : {Null} \cup {Some(d) : d \in EvalDates},
     status : StatusSet,
     delivery_completed : {FALSE},
     created_at : EvalTimestamps]

\* the first and the last instant of every month
EvalMonthDates ==
    UNION {{[y |-> 2024, m |-> m, d |-> 1, t |-> 0],
            [y |-> 2024, m |-> m, d |-> getDaysInMonth(2024, m), t |-> DayTicks - 1]}
           : m \in 1..MaxMonth}

-----------------------------------------------------------------------------
(* Inputs of fetchDashboardData *)

Users == {"u1"}

\* the array Promise.all resolves to
ResponseSet(C, I, D, T) ==
    [tasksTodayCount : C, tasksCompletedToday : C, tasksCompletedWeek : C,
     prospectsTotal : C, prospectsConverted : C,
     implementationsData : I, tasksLast7Days : D, tasksTodayData : T]

Row(amount, start, end, status, delivered) ==
    [id |-> 1, recurrence_value |-> amount, recurrence_start_date |-> start,
     recurrence_end_date |-> end, status |-> status,
     delivery_completed |-> delivered, created_at |-> <<2023, 11, 30, DayTicks - 1, 0>>]

SeqsUpTo(S, n) == UNION {[1..k -> S] : k \in 0..n}

\* new Date() of the life-cycle specification
LifeTodays == {[y |-> 2024, m |-> 3, d |-> 31, t |-> 1]}

\* the life-cycle specification runs in one time zone, behind UTC
LifeZones == {-1}

\* the life-cycle specification reads a store that answers every count alike
LifeResponses ==
    {r \in ResponseSet(
            {Null, Some(1)},
            {Some(<<>>), Some(<<Row(Some(2), Null, Null, "active", FALSE)>>)},
            {Null, Some(<<[scheduled_date |-> <<2024, 3, 30>>]>>)},
            {Some(<<[id |-> 1, steps |-> "json"]>>),
             Some(<<[id |-> 1, steps |-> "malformed"]>>)}) :
        /\ r.tasksCompletedToday = r.tasksTodayCount
        /\ r.tasksCompletedWeek = r.tasksTodayCount
        /\ r.prospectsTotal = r.tasksTodayCount
        /\ r.prospectsConverted = r.tasksTodayCount}

\* new Date() of the aggregation specification: a month end whose
\* six-month window crosses a year and a leap February, and a mid-month day
AggTodays ==
    {[y |-> 2024, m |-> 3, d |-> 31, t |-> 1],
     [y |-> 2024, m |-> 1, d |-> 15, t |-> 0],
     [y |-> 2024, m |-> 2, d |-> 1, t |-> 0]}

AggRows ==
    {Row(a, s, e, st, FALSE) :
        a \in {Null, Some(-1), Some(1), Some(MaxAmount)},
        s \in {Null, Some(<<2024, 2, 1>>)},
        e \in {Null, Some(<<2024, 1, 31>>)},
        st \in StatusSet}

AggResponses ==
    ResponseSet({Some(1)}, {Null} \cup {Some(l) : l \in SeqsUpTo(AggRows, MaxImpls)},
                {Some(<<>>)}, {Some(<<>>)})

-----------------------------------------------------------------------------
(* The component: state after mount *)

NewBatch(u, td) ==
    [status |-> "pending", remaining |-> NumReads, today |-> td,
     uid |-> Val(u), values |-> Null, implementations |-> <<>>]

\* no statement has run
NoRequest == [uid |-> Null, op |-> "none", status |-> "ok",
              returned |-> {}, old |-> {}, new |-> {}]

\* the store is not looked at
DbIdle ==
    /\ implementations = {}
    /\ implementation_billings = {}
    /\ request = NoRequest

\* the errors state with no message
NoErrors == [email |-> Null, password |-> Null]

\* the login form as mounted: the useState initial values, on its route
AuthIdle ==
    /\ email = <<>>
    /\ password = <<>>
    /\ authLoading = FALSE
    /\ errors = NoErrors
    /\ signIns = <<>>
    /\ toasts = <<>>
    /\ location = "/auth"

EvalIdle ==
    /\ impl = Row(Null, Null, Null, "paused", FALSE)
    /\ monthDate = [y |-> 2024, m |-> 1, d |-> 1, t |-> 0]
    /\ evalDone = FALSE
    /\ evalResult = FALSE

\* faulty variant: the effect starts a batch at mount without a user
DashInit_FetchWithoutUser(todays) ==
    /\ stats = InitialSnapshot.stats
    /\ chartData = <<>>
    /\ recurrenceData = <<>>
    /\ todayTasks = <<>>
    /\ loading = TRUE
    /\ user = Null
    /\ \E td \in todays :
        batches = <<[status |-> "pending", remaining |-> NumReads, today |-> td,
                     uid |-> "none", values |-> Null, implementations |-> <<>>]>>

DashInit(todays) ==
    /\ stats = InitialSnapshot.stats
    /\ chartData = <<>>
    /\ recurrenceData = <<>>
    /\ todayTasks = <<>>
    /\ loading = TRUE
    /\ \/ user = Null /\ batches = <<>>
       \/ \E u \in Users, td \in todays :
            user = Some(u) /\ batches = <<NewBatch(Some(u), td)>>

Init == DashInit(LifeTodays) /\ EvalIdle /\ DbIdle /\ AuthIdle /\ timeZone \in LifeZones

-----------------------------------------------------------------------------
(* The component: steps *)

\* useEffect on [user] with a user: fetchDashboardData starts a batch of reads
StartFetch(u, td) ==
    /\ Len(batches) < MaxBatches
    /\ user' = Some(u)
    /\ batches' = Append(batches, NewBatch(Some(u), td))
    /\ UNCHANGED <<stats, chartData, recurrenceData, todayTasks, loading>>

\* the user goes away: the effect runs and starts nothing
SignOut ==
    /\ user # Null
    /\ user' = Null
    /\ UNCHANGED <<stats, chartData, recurrenceData, todayTasks, loading, batches>>

\* one read of a pending batch is fulfilled
ReadFulfilled(b) ==
    /\ batches[b].status = "pending"
    /\ batches[b].remaining > 0
    /\ batches' = [batches EXCEPT ![b].remaining = @ - 1]
    /\ UNCHANGED <<user, stats, chartData, recurrenceData, todayTasks, loading>>

\* faulty variant: the catch block resets the statistics
Caught_ResetsStats(b) ==
    /\ batches' = [batches EXCEPT ![b].status = "failed"]
    /\ loading' = FALSE
    /\ stats' = InitialSnapshot.stats
    /\ UNCHANGED <<user, chartData, recurrenceData, todayTasks>>

\* faulty variant: there is no finally block
Caught_KeepsLoading(b) ==
    /\ batches' = [batches EXCEPT ![b].status = "failed"]
    /\ UNCHANGED <<user, stats, chartData, recurrenceData, todayTasks, loading>>

\* what the catch and finally blocks do
Caught(b) ==
    /\ batches' = [batches EXCEPT ![b].status = "failed"]
    /\ loading' = FALSE
    /\ UNCHANGED <<user, stats, chartData, recurrenceData, todayTasks>>

\* faulty variant: setChartData is not called
Committed_KeepsChart(b, r) ==
    /\ stats' = newStats(r, batches[b].today)
    /\ todayTasks' = parsedTasks(OrEmpty(r.tasksTodayData))
    /\ recurrenceData' = recurrenceChartData(OrEmpty(r.implementationsData), batches[b].today)
    /\ batches' = [batches EXCEPT ![b].status = "resolved", ![b].values = Some(r),
                                  ![b].implementations = OrEmpty(r.implementationsData)]
    /\ loading' = FALSE
    /\ UNCHANGED <<user, chartData>>

\* faulty variant: the weekly count is added to the one on display
Committed_Accumulates(b, r) ==
    /\ stats' = [newStats(r, batches[b].today) EXCEPT
                    !.tasksCompletedWeek = @ + stats.tasksCompletedWeek]
    /\ todayTasks' = parsedTasks(OrEmpty(r.tasksTodayData))
    /\ chartData' = chartDataProcessed(OrEmpty(r.tasksLast7Days), batches[b].today)
    /\ recurrenceData' = recurrenceChartData(OrEmpty(r.implementationsData), batches[b].today)
    /\ batches' = [batches EXCEPT ![b].status = "resolved", ![b].values = Some(r),
                                  ![b].implementations = OrEmpty(r.implementationsData)]
    /\ loading' = FALSE
    /\ UNCHANGED user

\* faulty variant: the implementation list is reversed in place
Committed_ReversesList(b, r) ==
    /\ stats' = newStats(r, batches[b].today)
    /\ todayTasks' = parsedTasks(OrEmpty(r.tasksTodayData))
    /\ chartData' = chartDataProcessed(OrEmpty(r.tasksLast7Days), batches[b].today)
    /\ recurrenceData' = recurrenceChartData(OrEmpty(r.implementationsData), batches[b].today)
    /\ batches' = [batches EXCEPT ![b].status = "resolved", ![b].values = Some(r),
                                  ![b].implementations =
                                    LET l == OrEmpty(r.implementationsData)
                                    IN  [k \in 1..Len(l) |-> l[Len(l) + 1 - k]]]
    /\ loading' = FALSE
    /\ UNCHANGED user

\* what the end of the try block and the finally block do
Committed(b, r) ==
    /\ stats' = newStats(r, batches[b].today)
    /\ todayTasks' = parsedTasks(OrEmpty(r.tasksTodayData))
    /\ chartData' = chartDataProcessed(OrEmpty(r.tasksLast7Days), batches[b].today)
    /\ recurrenceData' = recurrenceChartData(OrEmpty(r.implementationsData), batches[b].today)
    /\ batches' = [batches EXCEPT ![b].status = "resolved", ![b].values = Some(r),
                                  ![b].implementations = OrEmpty(r.implementationsData)]
    /\ loading' = FALSE
    /\ UNCHANGED user

\* one read of a pending batch is rejected: Promise.all rejects at once
ReadRejected(b) ==
    /\ batches[b].status = "pending"
    /\ batches[b].remaining > 0
    /\ Caught(b)

\* every read is fulfilled: Promise.all resolves to r and the try block runs
FetchResolved(b, r) ==
    /\ batches[b].status = "pending"
    /\ batches[b].remaining = 0
    /\ IF Throws(r) THEN Caught(b) ELSE Committed(b, r)

Batches == 1..Len(batches)

Trigger == \E u \in Users, td \in LifeTodays : StartFetch(u, td) /\ UNCHANGED <<evalVars, dbVars, authVars, envVars>>
Leave == SignOut /\ UNCHANGED <<evalVars, dbVars, authVars, envVars>>
Fulfil == \E b \in Batches : ReadFulfilled(b) /\ UNCHANGED <<evalVars, dbVars, authVars, envVars>>
Reject == \E b \in Batches : ReadRejected(b) /\ UNCHANGED <<evalVars, dbVars, authVars, envVars>>
Resolve ==
    \E b \in Batches :
        /\ batches[b].status = "pending"
        /\ batches[b].remaining = 0
        /\ \E r \in LifeResponses : FetchResolved(b, r) /\ UNCHANGED <<evalVars, dbVars, authVars, envVars>>

Next == Trigger \/ Leave \/ Fulfil \/ Reject \/ Resolve

Spec == Init /\ [][Next]_vars

\* a read of batch b settles, or its continuation runs (and throws, or
\* reaches the setters)
Settle(b) ==
    /\ b \in Batches
    /\ \/ ReadFulfilled(b)
       \/ ReadRejected(b)
       \/ \E r \in LifeResponses : Throws(r) /\ FetchResolved(b, r)
       \/ \E r \in LifeResponses : ~Throws(r) /\ FetchResolved(b, r)
    /\ UNCHANGED <<evalVars, dbVars, authVars, envVars>>

\* every read settles in the end and the event loop runs every continuation
SpecFair == Init /\ [][Next]_vars /\ \A b \in 1..MaxBatches : WF_vars(Settle(b))

-----------------------------------------------------------------------------
(* The aggregation of one batch, over many implementation lists *)

InitAgg ==
    DashInit(AggTodays) /\ user # Null /\ EvalIdle /\ DbIdle /\ AuthIdle
    /\ timeZone \in Zones

ResolveAgg ==
    \E b \in Batches :
        /\ batches[b].status = "pending"
        /\ batches[b].remaining = 0
        /\ \E r \in AggResponses : FetchResolved(b, r) /\ UNCHANGED <<evalVars, dbVars, authVars, envVars>>

NextAgg == Fulfil \/ Reject \/ ResolveAgg

SpecAgg == InitAgg /\ [][NextAgg]_vars

-----------------------------------------------------------------------------
(* The conversion rate shown on the prospects card *)

\* JavaScript numbers are binary64. A positive number is its significand of
\* 53 bits, held as the digits m = <<1, d2, d3, d4, d5>> in base 2^13 (the
\* first bit, then four digits of 13 bits), and the exponent e of the first
\* bit: its value is (1 + d2 / Base + ... + d5 / Base^4) * 2^e.
Base == 8192

Zero == [m |-> <<>>, e |-> 0]

RECURSIVE Exponent(_, _, _)
\* the exponent e with 2^e <= a / b < 2^(e + 1), with a and b scaled to
\* n and d so that d <= n < 2 * d
Exponent(a, b, e) ==
    IF a >= 2 * b THEN Exponent(a, 2 * b, e + 1)
    ELSE IF a < b THEN Exponent(2 * a, b, e - 1)
    ELSE [n |-> a, d |-> b, e |-> e]

RECURSIVE Increment(_, _)
\* the digits m with 1 added at digit n, the carry going to the digits before
Increment(m, n) ==
    IF n = 1 \/ m[n] < Base - 1 THEN [m EXCEPT ![n] = m[n] + 1]
    ELSE Increment([m EXCEPT ![n] = 0], n - 1)

\* the next number above x
RoundUp(x) ==
    LET m == Increment(x.m, 5)
    IN  IF m[1] = 2 THEN [m |-> <<1, 0, 0, 0, 0>>, e |-> x.e + 1]
        ELSE [m |-> m, e |-> x.e]

\* a / b for counts a >= 0 and b > 0: the quotient rounded to the nearest
\* number, a tie to the one whose last bit is 0
Divide(a, b) ==
    IF a = 0 THEN Zero
    ELSE LET s  == Exponent(a, b, 0)
             v2 == (s.n - s.d) * Base
             v3 == (v2 % s.d) * Base
             v4 == (v3 % s.d) * Base
             v5 == (v4 % s.d) * Base
             r  == v5 % s.d
             x  == [m |-> <<1, v2 \div s.d, v3 \div s.d, v4 \div s.d, v5 \div s.d>>,
                    e |-> s.e]
         IN  IF 2 * r > s.d \/ (2 * r = s.d /\ x.m[5] % 2 = 1)
             THEN RoundUp(x) ELSE x

RECURSIVE BitLength(_)
\* the number of bits of a natural number
BitLength(n) == IF n = 0 THEN 0 ELSE 1 + BitLength(n \div 2)

\* x * k for a natural number k > 0: the product rounded to the nearest
\* number, a tie to the one whose last bit is 0
Times(x, k) ==
    IF x = Zero THEN Zero
    ELSE LET \* the digits of the exact product, the first one not below Base
             w5 == x.m[5] * k
             w4 == x.m[4] * k + (w5 \div Base)
             w3 == x.m[3] * k + (w4 \div Base)
             w2 == x.m[2] * k + (w3 \div Base)
             w1 == x.m[1] * k + (w2 \div Base)
             \* the bits the product has too many, and what they hold
             s  == BitLength(w1) - 1
             p  == 2 ^ s
             u2 == (w1 % p) * Base + (w2 % Base)
             u3 == (u2 % p) * Base + (w3 % Base)
             u4 == (u3 % p) * Base + (w4 % Base)
             u5 == (u4 % p) * Base + (w5 % Base)
             r  == u5 % p
             y  == [m |-> <<w1 \div p, u2 \div p, u3 \div p, u4 \div p, u5 \div p>>,
                    e |-> x.e + s]
         IN  IF 2 * r > p \/ (2 * r = p /\ y.m[5] % 2 = 1)
             THEN RoundUp(y) ELSE y

\* Math.round(x) for 0 <= x < 2^26: floor(x + 0.5), which is the integer part
\* plus the first bit of the fraction
MathRound(x) ==
    IF x = Zero \/ x.e < -1 THEN 0
    ELSE IF x.e = -1 THEN 1
    ELSE LET top == (x.m[1] * Base + x.m[2]) * Base + x.m[3]
         IN  (top \div (2 ^ (26 - x.e))) + ((top \div (2 ^ (25 - x.e))) % 2)

conversionRate ==
    IF stats.prospectsTotal > 0
    THEN MathRound(Times(Divide(stats.prospectsConverted, stats.prospectsTotal), 100))
    ELSE 0

\* the instant a literal denotes to the database, whose session is in UTC
timestamptz(s) ==
    DaysFromCivil(s[1], s[2], s[3]) * DayTicks
        + (IF Len(s) >= 4 THEN s[4] ELSE 0) - (IF Len(s) >= 5 THEN s[5] ELSE 0)

\* count of from('prospects') with created_at >= monthStart
prospectsTotalQuery(rows, today) ==
    LET monthStart == formatISO(startOfMonth(today))
    IN  Cardinality({k \in 1..Len(rows) :
                        timestamptz(monthStart) <= timestamptz(rows[k].created_at)})

\* count of from('prospects') with status = 'converted'
prospectsConvertedQuery(rows) ==
    Cardinality({k \in 1..Len(rows) : rows[k].status = "converted"})

-----------------------------------------------------------------------------
(* One batch, over many results of each single read *)

\* new Date(): a week that crosses a leap February, and one that crosses a year
DataTodays ==
    {[y |-> 2024, m |-> 3, d |-> 3, t |-> 1],
     [y |-> 2024, m |-> 1, d |-> 2, t |-> 0]}

\* a result in which every read found one row or nothing
BaseResponse ==
    [tasksTodayCount |-> Some(1), tasksCompletedToday |-> Some(1),
     tasksCompletedWeek |-> Some(1), prospectsTotal |-> Some(1),
     prospectsConverted |-> Some(1), implementationsData |-> Some(<<>>),
     tasksLast7Days |-> Some(<<>>), tasksTodayData |-> Some(<<>>)]

\* scheduled dates inside and outside the two windows
ChartDates ==
    {<<2024, 2, 25>>, <<2024, 2, 26>>, <<2024, 2, 29>>, <<2024, 3, 3>>,
     <<2023, 12, 27>>, <<2024, 1, 2>>}

\* the rows of select('scheduled_date') on tasks
ChartRows == {[scheduled_date |-> d] : d \in ChartDates}

ChartResponses ==
    {[BaseResponse EXCEPT !.tasksLast7Days = d] :
        d \in {Null} \cup {Some(l) : l \in SeqsUpTo(ChartRows, MaxTasks)}}

\* implementation rows that differ in status, delivery, amount and end date
DeliveryRows ==
    {Row(a, Null, e, st, dl) :
        a \in {Null, Some(1)}, e \in {Null, Some(<<2024, 1, 31>>)},
        st \in StatusSet, dl \in BOOLEAN}

DeliveryResponses ==
    {[BaseResponse EXCEPT !.implementationsData = d] :
        d \in {Null} \cup {Some(l) : l \in SeqsUpTo(DeliveryRows, MaxImpls)}}

\* a prospects table: a rows created this month and not converted, b rows
\* created this month and converted, c rows created a month ago and converted
ProspectTable(today, a, b, c) ==
    [k \in 1..(a + b + c) |->
        IF k <= a THEN [created_at |-> formatISO(today) \o <<0, 0>>, status |-> "new"]
        ELSE IF k <= a + b
             THEN [created_at |-> formatISO(today) \o <<0, 0>>, status |-> "converted"]
             ELSE [created_at |-> formatISO(subMonths(today, 1)) \o <<0, 0>>,
                   status |-> "converted"]]

\* every table of up to MaxProspects rows, and one of 40 rows created this
\* month of which 23 are converted
ProspectTables(today) ==
    {ProspectTable(today, n[1], n[2], n[3]) :
        n \in {x \in (0..MaxProspects) \X (0..MaxProspects) \X (0..MaxProspects) :
                    x[1] + x[2] + x[3] <= MaxProspects}
              \cup {<<17, 23, 0>>}}

\* the two counts the prospects reads return for one content of the table,
\* or null for both
ProspectResponses(today) ==
    {[BaseResponse EXCEPT !.prospectsTotal = Some(prospectsTotalQuery(t, today)),
                          !.prospectsConverted = Some(prospectsConvertedQuery(t))] :
        t \in ProspectTables(today)}
    \cup {[BaseResponse EXCEPT !.prospectsTotal = Null, !.prospectsConverted = Null]}

\* active implementation rows whose amount is a number, NaN or a string
MalformedRows ==
    {Row(a, Null, e, "active", FALSE) :
        a \in {Some(1), NotANumber, Text}, e \in {Null, Some(<<2023, 12, 31>>)}}

MalformedResponses ==
    {[BaseResponse EXCEPT !.implementationsData = Some(l)] :
        l \in SeqsUpTo(MalformedRows, MaxImpls)}

DataResponses(today) ==
    ChartResponses \cup DeliveryResponses \cup ProspectResponses(today)
        \cup MalformedResponses

-----------------------------------------------------------------------------
(* A single call of isRecurrenceActiveForMonth *)

InitEval ==
    /\ stats = InitialSnapshot.stats
    /\ chartData = <<>>
    /\ recurrenceData = <<>>
    /\ todayTasks = <<>>
    /\ loading = TRUE
    /\ user = Null
    /\ batches = <<>>
    /\ impl \in EvalImpls
    /\ monthDate \in EvalMonthDates
    /\ evalDone = FALSE
    /\ evalResult = FALSE
    /\ DbIdle
    /\ AuthIdle
    /\ timeZone \in Zones

Evaluate ==
    /\ ~evalDone
    /\ evalDone' = TRUE
    /\ evalResult' = isRecurrenceActiveForMonth(impl, monthDate)
    /\ UNCHANGED <<impl, monthDate>>
    /\ UNCHANGED <<dashVars, dbVars, authVars, envVars>>

NextEval == Evaluate

SpecEval == InitEval /\ [][NextEval]_vars

-----------------------------------------------------------------------------
(* One batch over the results of single reads, and a single call *)

\* arguments of the single call
DataImpls ==
    {Row(Some(1), Null, Some(<<2024, 1, 31>>), "active", FALSE),
     Row(Null, Null, Null, "paused", TRUE)}

InitData ==
    /\ DashInit(DataTodays) /\ user # Null
    /\ impl \in DataImpls
    /\ monthDate = [y |-> 2024, m |-> 1, d |-> 1, t |-> 0]
    /\ evalDone = FALSE
    /\ evalResult = FALSE
    /\ DbIdle
    /\ AuthIdle
    /\ timeZone \in Zones

ResolveData ==
    \E b \in Batches :
        /\ batches[b].status = "pending"
        /\ batches[b].remaining = 0
        /\ \E r \in DataResponses(batches[b].today) :
                FetchResolved(b, r) /\ UNCHANGED <<evalVars, dbVars, authVars, envVars>>

NextData == Fulfil \/ Reject \/ ResolveData \/ Evaluate

SpecData == InitData /\ [][NextData]_vars

-----------------------------------------------------------------------------
(* The table implementation_billings and its row-level policies *)

\* auth.uid() of a request: a user id, or NULL without a session
AuthUids == {Null, Some("u1"), Some("u2")}

ImplementationIds == 1..MaxImplementations
BillingIds == 1..MaxBillings

\* rows of implementation_billings; is_paid stands for the columns that are
\* no key (billing_date, amount, is_paid, paid_at, notes)
BillingRows ==
    [id : BillingIds, implementation_id : ImplementationIds, is_paid : BOOLEAN]

\* contents of implementations: every id is absent or owned by u1 or u2
ImplementationTables ==
    {{[id |-> i, user_id |-> o[i]] : i \in {j \in ImplementationIds : o[j] # "absent"}} :
        o \in [ImplementationIds -> {"absent", "u1", "u2"}]}

\* USING of the SELECT policy
SelectUsing(uid, row) ==
    \E i \in implementations :
        /\ i.id = row.implementation_id
        /\ uid # Null /\ i.user_id = Val(uid)

\* WITH CHECK of the INSERT policy
InsertCheck(uid, row) ==
    \E i \in implementations :
        /\ i.id = row.implementation_id
        /\ uid # Null /\ i.user_id = Val(uid)

\* faulty variant: the UPDATE policy asks only that the implementation exists
UpdateUsing_AnyOwner(uid, row) ==
    \E i \in implementations : i.id = row.implementation_id

\* USING of the UPDATE policy
UpdateUsing(uid, row) ==
    \E i \in implementations :
        /\ i.id = row.implementation_id
        /\ uid # Null /\ i.user_id = Val(uid)

\* the UPDATE policy has no WITH CHECK: its USING is applied to the new row
UpdateCheck(uid, row) == UpdateUsing(uid, row)

\* USING of the DELETE policy
DeleteUsing(uid, row) ==
    \E i \in implementations :
        /\ i.id = row.implementation_id
        /\ uid # Null /\ i.user_id = Val(uid)

\* REFERENCES public.implementations(id)
ForeignKey(row) == \E i \in implementations : i.id = row.implementation_id

\* PRIMARY KEY (id)
PrimaryKey(row) == \A r \in implementation_billings : r.id # row.id

\* SELECT * FROM implementation_billings
SelectBillings(uid) ==
    /\ request' = [uid |-> uid, op |-> "select", status |-> "ok",
                   returned |-> {r \in implementation_billings : SelectUsing(uid, r)},
                   old |-> {}, new |-> {}]
    /\ UNCHANGED <<implementations, implementation_billings>>

\* INSERT INTO implementation_billings VALUES (row)
InsertBilling(uid, row) ==
    IF PrimaryKey(row) /\ ForeignKey(row) /\ InsertCheck(uid, row)
    THEN /\ implementation_billings' = implementation_billings \cup {row}
         /\ request' = [uid |-> uid, op |-> "insert", status |-> "ok",
                        returned |-> {}, old |-> {}, new |-> {row}]
         /\ UNCHANGED implementations
    ELSE /\ request' = [uid |-> uid, op |-> "insert", status |-> "error",
                        returned |-> {}, old |-> {}, new |-> {}]
         /\ UNCHANGED <<implementations, implementation_billings>>

\* UPDATE implementation_billings SET implementation_id, is_paid WHERE id = id
UpdateBilling(uid, id, implementation_id, is_paid) ==
    LET old == {r \in implementation_billings : r.id = id /\ UpdateUsing(uid, r)}
        new == {[r EXCEPT !.implementation_id = implementation_id,
                          !.is_paid = is_paid] : r \in old}
    IN  IF \A r \in new : ForeignKey(r) /\ UpdateCheck(uid, r)
        THEN /\ implementation_billings' = (implementation_billings \ old) \cup new
             /\ request' = [uid |-> uid, op |-> "update", status |-> "ok",
                            returned |-> {}, old |-> old, new |-> new]
             /\ UNCHANGED implementations
        ELSE /\ request' = [uid |-> uid, op |-> "update", status |-> "error",
                            returned |-> {}, old |-> {}, new |-> {}]
             /\ UNCHANGED <<implementations, implementation_billings>>

\* DELETE FROM implementation_billings WHERE id = id
DeleteBilling(uid, id) ==
    LET old == {r \in implementation_billings : r.id = id /\ DeleteUsing(uid, r)}
    IN  /\ implementation_billings' = implementation_billings \ old
        /\ request' = [uid |-> uid, op |-> "delete", status |-> "ok",
                       returned |-> {}, old |-> old, new |-> {}]
        /\ UNCHANGED implementations

\* the dashboard is not mounted
DashIdle ==
    /\ stats = InitialSnapshot.stats
    /\ chartData = <<>>
    /\ recurrenceData = <<>>
    /\ todayTasks = <<>>
    /\ loading = TRUE
    /\ user = Null
    /\ batches = <<>>

\* the migration has run: the new table is empty, implementations is not
InitDb ==
    /\ DashIdle
    /\ EvalIdle
    /\ implementations \in ImplementationTables
    /\ implementation_billings = {}
    /\ timeZone = 0
    /\ request = NoRequest
    /\ AuthIdle

Select == \E uid \in AuthUids : SelectBillings(uid) /\ UNCHANGED <<dashVars, evalVars, authVars, envVars>>
Insert ==
    \E uid \in AuthUids, row \in BillingRows :
        InsertBilling(uid, row) /\ UNCHANGED <<dashVars, evalVars, authVars, envVars>>
Update ==
    \E uid \in AuthUids, id \in BillingIds, i \in ImplementationIds, p \in BOOLEAN :
        UpdateBilling(uid, id, i, p) /\ UNCHANGED <<dashVars, evalVars, authVars, envVars>>
Delete ==
    \E uid \in AuthUids, id \in BillingIds :
        DeleteBilling(uid, id) /\ UNCHANGED <<dashVars, evalVars, authVars, envVars>>

NextDb == Select \/ Insert \/ Update \/ Delete

SpecDb == InitDb /\ [][NextDb]_vars

-----------------------------------------------------------------------------
(* The foreign key of implementation_billings *)

\* INSERT INTO implementations: a row with a new id
InsertImplementation(id, user_id) ==
    /\ \A i \in implementations : i.id # id
    /\ implementations' = implementations \cup {[id |-> id, user_id |-> user_id]}
    /\ UNCHANGED <<implementation_billings, request>>

\* faulty variant: the billing rows of the implementation are left behind
DeleteImplementation_NoCascade(id) ==
    /\ \E i \in implementations : i.id = id
    /\ implementations' = {i \in implementations : i.id # id}
    /\ request' = [uid |-> Null, op |-> "cascade", status |-> "ok",
                   returned |-> {}, old |-> {}, new |-> {}]
    /\ UNCHANGED implementation_billings

\* DELETE FROM implementations WHERE id = id, with ON DELETE CASCADE
DeleteImplementation(id) ==
    /\ \E i \in implementations : i.id = id
    /\ implementations' = {i \in implementations : i.id # id}
    /\ implementation_billings' =
            {r \in implementation_billings : r.implementation_id # id}
    /\ request' = [uid |-> Null, op |-> "cascade", status |-> "ok",
                   returned |-> {},
                   old |-> {r \in implementation_billings : r.implementation_id = id},
                   new |-> {}]

\* INSERT by the table owner, whom row level security that is enabled but
\* not forced does not bind: the keys alone decide
InsertBillingAsOwner(row) ==
    IF PrimaryKey(row) /\ ForeignKey(row)
    THEN /\ implementation_billings' = implementation_billings \cup {row}
         /\ request' = [uid |-> Null, op |-> "insert", status |-> "ok",
                        returned |-> {}, old |-> {}, new |-> {row}]
         /\ UNCHANGED implementations
    ELSE /\ request' = [uid |-> Null, op |-> "insert", status |-> "error",
                        returned |-> {}, old |-> {}, new |-> {}]
         /\ UNCHANGED <<implementations, implementation_billings>>

\* DELETE by the table owner
DeleteBillingAsOwner(id) ==
    /\ implementation_billings' = {r \in implementation_billings : r.id # id}
    /\ request' = [uid |-> Null, op |-> "delete", status |-> "ok",
                   returned |-> {},
                   old |-> {r \in implementation_billings : r.id = id},
                   new |-> {}]
    /\ UNCHANGED implementations

AddImplementation ==
    \E id \in ImplementationIds, o \in {"u1", "u2"} :
        InsertImplementation(id, o) /\ UNCHANGED <<dashVars, evalVars, authVars, envVars>>
DropImplementation ==
    \E id \in ImplementationIds :
        DeleteImplementation(id) /\ UNCHANGED <<dashVars, evalVars, authVars, envVars>>
OwnerInsert ==
    \E row \in BillingRows :
        InsertBillingAsOwner(row) /\ UNCHANGED <<dashVars, evalVars, authVars, envVars>>
OwnerDelete ==
    \E id \in BillingIds :
        DeleteBillingAsOwner(id) /\ UNCHANGED <<dashVars, evalVars, authVars, envVars>>

NextRef ==
    \/ Insert \/ Delete \/ OwnerInsert \/ OwnerDelete
    \/ AddImplementation \/ DropImplementation

SpecRef == InitDb /\ [][NextRef]_vars

-----------------------------------------------------------------------------
(* The login form *)

MinPassword == 6

\* a word of letters and dots that neither starts nor ends with a dot and
\* has no two dots in a row
Dotted(w) ==
    /\ Len(w) >= 1
    /\ \A k \in 1..Len(w) : w[k] \in {"a", "."}
    /\ w[1] # "." /\ w[Len(w)] # "."
    /\ \A k \in 1..(Len(w) - 1) : ~(w[k] = "." /\ w[k + 1] = ".")

\* z.string().email() on a text of the characters a, @ and . : one @, a
\* dotted local part, a dotted domain with a dot and a last label of two
\* letters or more
IsEmail(e) ==
    LET ats == {i \in 1..Len(e) : e[i] = "@"}
    IN  /\ Cardinality(ats) = 1
        /\ LET i == CHOOSE j \in ats : TRUE
               domain == SubSeq(e, i + 1, Len(e))
           IN  /\ Dotted(SubSeq(e, 1, i - 1))
               /\ Dotted(domain)
               /\ \E k \in 1..Len(domain) : domain[k] = "."
               /\ domain[Len(domain) - 1] # "."

\* the constraint validation of <input type="email">, which is not required:
\* empty, or one or more characters of the local part, an @, and labels
\* separated by single dots
checkValidity(e) ==
    \/ e = <<>>
    \/ LET ats == {i \in 1..Len(e) : e[i] = "@"}
       IN  /\ Cardinality(ats) = 1
           /\ LET i == CHOOSE j \in ats : TRUE
              IN  /\ i > 1
                  /\ \A k \in 1..(i - 1) : e[k] \in {"a", "."}
                  /\ Dotted(SubSeq(e, i + 1, Len(e)))

\* faulty variant: the password is not looked at
Passes_EmailOnly(e, p) == IsEmail(e)

\* loginSchema.safeParse({ email, password }).success
Passes(e, p) == IsEmail(e) /\ Len(p) >= MinPassword

\* the fieldErrors built from result.error.errors
fieldErrors(e, p) ==
    [email    |-> IF IsEmail(e) THEN Null ELSE Some("Email invalido"),
     password |-> IF Len(p) >= MinPassword THEN Null
                  ELSE Some("Senha deve ter no minimo 6 caracteres")]

\* texts of the email input: empty, without @, without a dot in the domain,
\* with a one-letter last label, valid, with a leading dot, with two @,
\* valid with a dotted local part
EmailSet ==
    {<<>>,
     <<"a">>,
     <<"a", "@", "a">>,
     <<"a", "@", "a", ".", "a">>,
     <<"a", "@", "a", ".", "a", "a">>,
     <<".", "a", "@", "a", ".", "a", "a">>,
     <<"a", "@", "@", "a", ".", "a", "a">>,
     <<"a", ".", "a", "@", "a", ".", "a", "a">>}

PasswordSet == UNION {[1..n -> {"x"}] : n \in 0..MaxPassword}

\* what signIn resolves to: no error, or an error with its message
SignInErrors == {Null, Some("Invalid login credentials"), Some("Failed to fetch")}

\* faulty variant: the inputs and the button stay enabled while loading
FormEnabled_WhileLoading == TRUE

\* disabled={loading} on both inputs and on the submit button
FormEnabled == ~authLoading

\* onChange of the email input
setEmail(v) ==
    /\ location = "/auth"
    /\ FormEnabled
    /\ email' = v
    /\ UNCHANGED <<password, authLoading, errors, signIns, toasts, location>>

\* onChange of the password input
setPassword(v) ==
    /\ location = "/auth"
    /\ FormEnabled
    /\ password' = v
    /\ UNCHANGED <<email, authLoading, errors, signIns, toasts, location>>

\* handleSubmit up to its return or to the await
handleSubmit ==
    /\ location = "/auth"
    /\ FormEnabled
    /\ IF ~Passes(email, password)
       THEN /\ errors' = fieldErrors(email, password)
            /\ UNCHANGED <<email, password, authLoading, signIns, toasts, location>>
       ELSE /\ Len(signIns) < MaxSignIns
            /\ errors' = NoErrors
            /\ authLoading' = TRUE
            /\ signIns' = Append(signIns, [email |-> email, password |-> password,
                                           status |-> "pending"])
            /\ UNCHANGED <<email, password, toasts, location>>

\* faulty variant: navigate('/') is called whatever signIn returned
SignInReturns_AlwaysNavigates(k, error) ==
    /\ signIns[k].status = "pending"
    /\ signIns' = [signIns EXCEPT ![k].status = IF error = Null THEN "ok" ELSE "error"]
    /\ authLoading' = FALSE
    /\ toasts' = Append(toasts, [variant |-> IF error = Null THEN "default" ELSE "destructive",
                                 call |-> k])
    /\ location' = "/"
    /\ UNCHANGED <<email, password, errors>>

\* handleSubmit after the await: call k of signIn has returned { error }
SignInReturns(k, error) ==
    /\ signIns[k].status = "pending"
    /\ signIns' = [signIns EXCEPT ![k].status = IF error = Null THEN "ok" ELSE "error"]
    /\ authLoading' = FALSE
    /\ toasts' = Append(toasts, [variant |-> IF error = Null THEN "default" ELSE "destructive",
                                 call |-> k])
    /\ location' = IF error = Null THEN "/" ELSE location
    /\ UNCHANGED <<email, password, errors>>

InitAuth == DashIdle /\ EvalIdle /\ DbIdle /\ AuthIdle /\ timeZone = 0

TypeEmail == \E v \in EmailSet : setEmail(v) /\ UNCHANGED <<dashVars, evalVars, dbVars, envVars>>
TypePassword ==
    \E v \in PasswordSet : setPassword(v) /\ UNCHANGED <<dashVars, evalVars, dbVars, envVars>>
\* a click on the submit button: the browser validates the form, which has
\* no noValidate, and dispatches the submit event only if the form is valid
Submit ==
    /\ checkValidity(email)
    /\ handleSubmit
    /\ UNCHANGED <<dashVars, evalVars, dbVars, envVars>>
Return ==
    \E k \in 1..Len(signIns), error \in SignInErrors :
        SignInReturns(k, error) /\ UNCHANGED <<dashVars, evalVars, dbVars, envVars>>

NextAuth == TypeEmail \/ TypePassword \/ Submit \/ Return

SpecAuth == InitAuth /\ [][NextAuth]_vars

-----------------------------------------------------------------------------
(* Properties of a single call of isRecurrenceActiveForMonth (SpecEval) *)

\* a <= b for calendar dates <<y, m, d>>
DateLE(a, b) ==
    \/ a[1] < b[1]
    \/ a[1] = b[1] /\ a[2] < b[2]
    \/ a[1] = b[1] /\ a[2] = b[2] /\ a[3] <= b[3]

\* the calendar date, in the time zone of the process, of the instant a
\* timestamp written in UTC denotes
LocalDate(ts) ==
    LET t   == ts[4] - ts[5] + timeZone
        day == DaysFromCivil(ts[1], ts[2], ts[3])
    IN  CivilFromDays(IF t < 0 THEN day - 1 ELSE IF t >= DayTicks THEN day + 1 ELSE day)

\* the explicit start date, else the calendar date of creation
EffectiveStart(i) ==
    IF i.recurrence_start_date # Null THEN Val(i.recurrence_start_date)
    ELSE LocalDate(i.created_at)

FirstDayOf(md) == <<md.y, md.m, 1>>

LastDayOf(md) == <<md.y, md.m, getDaysInMonth(md.y, md.m)>>

\* months since year 0 of a calendar date <<y, m, d>>
MonthIdx(c) == c[1] * 12 + c[2]

PositiveAmount(i) == i.recurrence_value # Null /\ Val(i.recurrence_value) > 0

NonZeroAmount(i) == i.recurrence_value # Null /\ Val(i.recurrence_value) # 0

StartsByMonthEnd(i, md) == DateLE(EffectiveStart(i), LastDayOf(md))

EndsNotBeforeMonth(i, md) ==
    i.recurrence_end_date = Null \/ DateLE(FirstDayOf(md), Val(i.recurrence_end_date))

\* C1 as stated: the call returns true if and only if the amount is positive,
\* the status is 'active', the effective start is not after the last day of
\* the month and there is no end date or it is not before the first day.
C1_AsStated ==
    evalDone =>
        (evalResult <=> /\ PositiveAmount(impl)
                        /\ impl.status = "active"
                        /\ StartsByMonthEnd(impl, monthDate)
                        /\ EndsNotBeforeMonth(impl, monthDate))

\* C1 (amended): the call returns true if and only if the amount is neither
\* null nor zero (a negative amount passes), the status is 'active', the
\* effective start is not after the last day of the month and there is no
\* end date or it is not before the first day of the month.
C1_EligibleIff ==
    evalDone =>
        (evalResult <=> /\ NonZeroAmount(impl)
                        /\ impl.status = "active"
                        /\ StartsByMonthEnd(impl, monthDate)
                        /\ EndsNotBeforeMonth(impl, monthDate))

C1_Witness ==
    /\ evalDone /\ evalResult
    /\ Val(impl.recurrence_value) < 0
    /\ impl.recurrence_start_date = Null
    /\ impl.recurrence_end_date # Null

\* every calendar day of the months the inputs lie in
EvalAllDays ==
    UNION {{<<2024, m, d>> : d \in 1..getDaysInMonth(2024, m)} : m \in 1..MaxMonth}

\* [effective start, end or +infinity] and [first day, last day] share a day
SharesADay(i, md) ==
    \E day \in EvalAllDays :
        /\ DateLE(EffectiveStart(i), day)
        /\ i.recurrence_end_date = Null \/ DateLE(day, Val(i.recurrence_end_date))
        /\ DateLE(FirstDayOf(md), day)
        /\ DateLE(day, LastDayOf(md))

EndNotBeforeStart(i) ==
    i.recurrence_end_date = Null \/ DateLE(EffectiveStart(i), Val(i.recurrence_end_date))

\* C2 as stated: for an active implementation with a positive amount the call
\* returns true exactly when the two closed intervals share a day, also for
\* records whose end date is earlier than their effective start.
C2_AsStated ==
    (evalDone /\ impl.status = "active" /\ PositiveAmount(impl))
        => (evalResult <=> SharesADay(impl, monthDate))

\* C2 (amended): for an active implementation with a positive amount whose end
\* date, if any, is not earlier than its effective start, the call returns
\* true exactly when the two closed intervals share a day.
C2_IntervalTest ==
    (evalDone /\ impl.status = "active" /\ PositiveAmount(impl) /\ EndNotBeforeStart(impl))
        => (evalResult <=> SharesADay(impl, monthDate))

C2_Witness ==
    /\ evalDone /\ evalResult
    /\ impl.status = "active" /\ PositiveAmount(impl)
    /\ impl.recurrence_end_date # Null
    /\ EndNotBeforeStart(impl)
    /\ Val(impl.recurrence_end_date) = FirstDayOf(monthDate)
    /\ MonthIdx(EffectiveStart(impl)) < MonthIdx(FirstDayOf(monthDate))

\* C6: the call returns false whenever the status is not 'active' or the
\* amount is zero or null, whatever the dates are.
C6_InactiveOrNoAmount ==
    (/\ evalDone
     /\ \/ impl.status # "active"
        \/ impl.recurrence_value = Null
        \/ Val(impl.recurrence_value) = 0)
        => ~evalResult

C6_Witness ==
    /\ evalDone /\ ~evalResult
    /\ impl.status # "active"
    /\ PositiveAmount(impl)
    /\ StartsByMonthEnd(impl, monthDate)
    /\ EndsNotBeforeMonth(impl, monthDate)

\* C7: for an active implementation with a positive amount and no end date
\* the call returns true for the month of the effective start and every
\* later month, and false for every earlier month.
C7_OpenEnded ==
    (/\ evalDone /\ impl.status = "active" /\ PositiveAmount(impl)
     /\ impl.recurrence_end_date = Null)
        => (evalResult <=> MonthIdx(EffectiveStart(impl)) <= MonthIdx(FirstDayOf(monthDate)))

C7_Witness ==
    /\ evalDone /\ evalResult
    /\ impl.status = "active" /\ PositiveAmount(impl)
    /\ impl.recurrence_end_date = Null
    /\ MonthIdx(EffectiveStart(impl)) = MonthIdx(FirstDayOf(monthDate))
    /\ EffectiveStart(impl)[3] > 1

\* C8: for an active implementation with a positive amount, a start date and
\* an end date not before it, the call returns true exactly for the months
\* from the start date's month through the end date's month.
C8_StartThroughEnd ==
    (/\ evalDone /\ impl.status = "active" /\ PositiveAmount(impl)
     /\ impl.recurrence_start_date # Null
     /\ impl.recurrence_end_date # Null
     /\ DateLE(Val(impl.recurrence_start_date), Val(impl.recurrence_end_date)))
        => (evalResult <=>
                /\ MonthIdx(Val(impl.recurrence_start_date)) <= MonthIdx(FirstDayOf(monthDate))
                /\ MonthIdx(FirstDayOf(monthDate)) <= MonthIdx(Val(impl.recurrence_end_date)))

C8_Witness ==
    /\ evalDone /\ evalResult
    /\ impl.status = "active" /\ PositiveAmount(impl)
    /\ impl.recurrence_start_date # Null
    /\ impl.recurrence_end_date # Null
    /\ MonthIdx(Val(impl.recurrence_start_date)) < MonthIdx(Val(impl.recurrence_end_date))
    /\ MonthIdx(FirstDayOf(monthDate)) = MonthIdx(Val(impl.recurrence_end_date))
    /\ Val(impl.recurrence_end_date)[3] = 15
    /\ monthDate.d > 15

\* C9: without an explicit start date the creation date, which is the
\* calendar date of the instant of creation in the time zone of the process,
\* is the effective start (not eligible before the creation month, eligible
\* from it onward subject to the end date); with an explicit start date the
\* creation date has no influence on the result.
C9_CreationFallback ==
    evalDone =>
        /\ (/\ impl.recurrence_start_date = Null
            /\ impl.status = "active" /\ PositiveAmount(impl))
                => (evalResult <=>
                        /\ MonthIdx(LocalDate(impl.created_at)) <= MonthIdx(FirstDayOf(monthDate))
                        /\ EndsNotBeforeMonth(impl, monthDate))
        /\ impl.recurrence_start_date # Null
                => \A c \in EvalTimestamps :
                        isRecurrenceActiveForMonth([impl EXCEPT !.created_at = c], monthDate)
                            = evalResult

C9_Witness ==
    /\ evalDone /\ evalResult
    /\ impl.recurrence_start_date = Null
    /\ impl.created_at[3] = 1
    /\ impl.created_at[4] = 0
    /\ timeZone < 0
    /\ MonthIdx(FirstDayOf(monthDate)) = MonthIdx(impl.created_at) - 1

-----------------------------------------------------------------------------
(* Properties of the fetch batches (Spec) *)

\* what batch b wrote, or would write, from the values it resolved to
ResultOf(b) == Snapshot(Val(batches[b].values), batches[b].today)

\* batch b ends in this step with every read fulfilled and its result written
Completes(b) ==
    /\ b \in Batches
    /\ batches[b].status = "pending"
    /\ batches'[b].status = "resolved"

\* batch b ends in this step without writing
Fails(b) ==
    /\ b \in Batches
    /\ batches[b].status = "pending"
    /\ batches'[b].status = "failed"

DisplayedNext ==
    [stats |-> stats', todayTasks |-> todayTasks',
     chartData |-> chartData', recurrenceData |-> recurrenceData']

\* C3: a batch one of whose reads is rejected does not run the aggregation
\* and leaves the displayed snapshot as it was; the snapshot changes only in
\* the step in which a batch whose reads have all been fulfilled writes its
\* own result.
C3_FailedBatchKeepsSnapshot ==
    [][/\ \A b \in Batches :
            Fails(b) => /\ DisplayedNext = Displayed
                        /\ batches'[b].values = Null
       /\ DisplayedNext # Displayed
            => \E b \in Batches :
                    /\ Completes(b)
                    /\ batches[b].remaining = 0
                    /\ DisplayedNext = Snapshot(Val(batches'[b].values), batches[b].today)]_vars

C3_Witness ==
    \E b \in Batches :
        /\ batches[b].status = "failed"
        /\ batches[b].remaining > 0
        /\ Displayed # InitialSnapshot

\* C4: with several batches in flight, every batch that completes with all
\* reads fulfilled overwrites the displayed snapshot with its own full result
\* (so the batch that completed last wins), and the displayed snapshot is
\* always the initial one or the full result of one completed batch.
C4_LastWriteWins ==
    /\ [](\/ Displayed = InitialSnapshot
          \/ \E b \in Batches :
                batches[b].status = "resolved" /\ Displayed = ResultOf(b))
    /\ [][\A b \in Batches :
            Completes(b)
                => DisplayedNext = Snapshot(Val(batches'[b].values), batches[b].today)]_vars

C4_Witness ==
    /\ Len(batches) >= 2
    /\ batches[1].status = "resolved"
    /\ batches[2].status = "resolved"
    /\ ResultOf(1).stats # ResultOf(2).stats
    /\ ResultOf(1).chartData # ResultOf(2).chartData
    /\ Displayed = ResultOf(1)

-----------------------------------------------------------------------------
(* Properties of the aggregation (SpecAgg) *)

AmountOrZero(i) == IF i.recurrence_value = Null THEN 0 ELSE Val(i.recurrence_value)

RECURSIVE SumWhere(_, _, _)
\* the sum of the amounts of the rows k..Len(rows) whose index is in K
SumWhere(rows, K, k) ==
    IF k > Len(rows) THEN 0
    ELSE (IF k \in K THEN AmountOrZero(rows[k]) ELSE 0) + SumWhere(rows, K, k + 1)

ImplsOf(b) == OrEmpty(Val(batches[b].values).implementationsData)

\* C5: the current-month total of a completed batch is the sum of the amounts
\* of exactly the implementations isRecurrenceActiveForMonth(impl, today)
\* holds for.
C5_CurrentMonthTotal ==
    \A b \in Batches :
        batches[b].status = "resolved"
            => stats.totalRecurrence = Some(
                SumWhere(ImplsOf(b),
                         {k \in 1..Len(ImplsOf(b)) :
                            isRecurrenceActiveForMonth(ImplsOf(b)[k], batches[b].today)},
                         1))

C5_Witness ==
    \E b \in Batches :
        /\ batches[b].status = "resolved"
        /\ Len(ImplsOf(b)) = 2
        /\ isRecurrenceActiveForMonth(ImplsOf(b)[1], batches[b].today)
        /\ ~isRecurrenceActiveForMonth(ImplsOf(b)[2], batches[b].today)
        /\ PositiveAmount(ImplsOf(b)[2])
        /\ stats.totalRecurrence = ImplsOf(b)[1].recurrence_value

\* the calendar month n months before the month of today, as <<y, m>>
MonthBefore(today, n) ==
    LET idx == today.y * 12 + (today.m - 1) - n
    IN  <<idx \div 12, (idx % 12) + 1>>

\* the eligibility rule for the calendar month ym
EligibleIn(i, ym) ==
    LET md == [y |-> ym[1], m |-> ym[2], d |-> 1, t |-> 0]
    IN  /\ NonZeroAmount(i)
        /\ i.status = "active"
        /\ StartsByMonthEnd(i, md)
        /\ EndsNotBeforeMonth(i, md)

\* C10: the trend of a completed batch has 6 entries, one for each of the 6
\* consecutive calendar months ending at the month of today, oldest first,
\* each holding the sum of the amounts of the implementations eligible for
\* its month.
C10_SixMonthTrend ==
    \A b \in Batches :
        batches[b].status = "resolved"
            => /\ Len(recurrenceData) = 6
               /\ \A k \in 1..6 :
                    LET ym == MonthBefore(batches[b].today, 6 - k)
                    IN  /\ recurrenceData[k].month = ym[2]
                        /\ recurrenceData[k].value = Some(
                            SumWhere(ImplsOf(b),
                                     {j \in 1..Len(ImplsOf(b)) : EligibleIn(ImplsOf(b)[j], ym)},
                                     1))

C10_Witness ==
    \E b \in Batches :
        /\ batches[b].status = "resolved"
        /\ batches[b].today.d = 31
        /\ recurrenceData[1].month = 10
        /\ recurrenceData[5].month = 2
        /\ Val(recurrenceData[1].value) = 0
        /\ Val(recurrenceData[3].value) > Val(recurrenceData[5].value)
        /\ Val(recurrenceData[5].value) > 0

-----------------------------------------------------------------------------
(* Properties of the aggregation over single reads (SpecData) *)

\* the calendar date before c
DayBefore(c) ==
    IF c[3] > 1 THEN <<c[1], c[2], c[3] - 1>>
    ELSE IF c[2] > 1 THEN <<c[1], c[2] - 1, getDaysInMonth(c[1], c[2] - 1)>>
    ELSE <<c[1] - 1, 12, 31>>

RECURSIVE DaysBefore(_, _)
\* the calendar date n days before c
DaysBefore(c, n) == IF n = 0 THEN c ELSE DaysBefore(DayBefore(c), n - 1)

TaskRowsOf(b) == OrEmpty(Val(batches[b].values).tasksLast7Days)

\* C11: the chart of a completed batch has 7 entries, for the 7 consecutive
\* calendar dates ending at today, oldest first; each count is the number of
\* fetched rows scheduled on that date (0 when there is none).
C11_SevenDayChart ==
    \A b \in Batches :
        batches[b].status = "resolved"
            => /\ Len(chartData) = 7
               /\ \A k \in 1..7 :
                    LET day == DaysBefore(formatISO(batches[b].today), 7 - k)
                    IN  /\ chartData[k].date = day
                        /\ chartData[k].completed =
                            Cardinality({j \in 1..Len(TaskRowsOf(b)) :
                                            TaskRowsOf(b)[j].scheduled_date = day})

C11_Witness ==
    \E b \in Batches :
        /\ batches[b].status = "resolved"
        /\ chartData[1].date = <<2024, 2, 26>>
        /\ chartData[1].completed = 2
        /\ chartData[4].date = <<2024, 2, 29>>
        /\ chartData[4].completed = 1
        /\ \A k \in {2, 3, 5, 6, 7} : chartData[k].completed = 0

\* C12: the delivery-pending count of a completed batch is the number of
\* fetched implementations that are active and not delivered, whatever their
\* amounts and dates.
C12_DeliveryPending ==
    \A b \in Batches :
        batches[b].status = "resolved"
            => stats.deliveryPendingCount =
                Cardinality({k \in 1..Len(ImplsOf(b)) :
                                /\ ImplsOf(b)[k].status = "active"
                                /\ ImplsOf(b)[k].delivery_completed = FALSE})

C12_Witness ==
    \E b \in Batches :
        /\ batches[b].status = "resolved"
        /\ Len(ImplsOf(b)) = 2
        /\ ImplsOf(b)[1].status = "active"
        /\ ImplsOf(b)[1].delivery_completed
        /\ ImplsOf(b)[2].status # "active"
        /\ ~ImplsOf(b)[2].delivery_completed
        /\ stats.deliveryPendingCount = 0

CountsOf(b) ==
    <<OrZero(Val(batches[b].values).prospectsTotal),
      OrZero(Val(batches[b].values).prospectsConverted)>>

\* C13: for the counts of a completed batch, the conversion rate is 0 when the
\* total is 0, and otherwise round(converted / total * 100), the integer
\* nearest to the percentage (a half goes up).
C13_ConversionRate ==
    \A b \in Batches :
        batches[b].status = "resolved"
            => LET total == CountsOf(b)[1]
                   converted == CountsOf(b)[2]
               IN  /\ total = 0 => conversionRate = 0
                   /\ total > 0 =>
                        /\ (2 * conversionRate - 1) * total <= 200 * converted
                        /\ 200 * converted < (2 * conversionRate + 1) * total

\* what holds of the rate: 0 for a total of 0, and otherwise an integer at
\* most a half away from the percentage (an exact half may go either way)
C13_WithinHalf ==
    \A b \in Batches :
        batches[b].status = "resolved"
            => LET total == CountsOf(b)[1]
                   converted == CountsOf(b)[2]
               IN  /\ total = 0 => conversionRate = 0
                   /\ total > 0 =>
                        /\ (2 * conversionRate - 1) * total <= 200 * converted
                        /\ 200 * converted <= (2 * conversionRate + 1) * total

\* C20: the conversion rate shown for the counts of a completed batch lies
\* between 0 and 100 inclusive.
C20_RateWithinPercent ==
    \A b \in Batches :
        batches[b].status = "resolved"
            => conversionRate >= 0 /\ conversionRate <= 100

-----------------------------------------------------------------------------
(* Properties of the component without a user (Spec) *)

\* C14 as stated: while no user identity is available the snapshot has its
\* initial values, no batch of reads is started and no batch runs the
\* aggregation; a batch starts only in a step that makes a user identity
\* available.
C14_AsStated ==
    /\ [](user = Null => Displayed = InitialSnapshot)
    /\ [][(user = Null /\ user' = Null)
            => /\ Len(batches') = Len(batches)
               /\ \A b \in Batches : ~Completes(b)
               /\ DisplayedNext = Displayed]_vars
    /\ [][Len(batches') # Len(batches) => user' # Null]_vars

\* C14: until a batch of reads has been started nothing is computed: there is
\* no user identity, the snapshot has its initial values and the loading
\* flag is still set. A batch of reads starts only in a step that makes a
\* user identity available, and is issued for that identity; no step without
\* a user identity starts one. (A batch started for a user still runs the
\* aggregation and writes its snapshot after the user has gone away.)
C14_NoUserNoFetch ==
    /\ [](/\ \A b \in Batches : batches[b].uid \in Users
          /\ Len(batches) = 0 => user = Null /\ Displayed = InitialSnapshot /\ loading)
    /\ [][Len(batches') # Len(batches)
            => /\ Len(batches') = Len(batches) + 1
               /\ user' # Null
               /\ batches'[Len(batches')].uid = Val(user')
               /\ batches'[Len(batches')].status = "pending"]_vars

C14_Witness ==
    /\ user = Null
    /\ Len(batches) = 2
    /\ batches[1].status = "resolved"
    /\ batches[2].status = "pending"
    /\ batches[2].remaining = NumReads
    /\ Displayed # InitialSnapshot

\* the amount is not a valid number
Malformed(i) == i.recurrence_value \in {NotANumber, Text}

\* the list with every malformed amount made absent
WithoutMalformed(impls) ==
    [k \in 1..Len(impls) |->
        IF Malformed(impls[k]) THEN [impls[k] EXCEPT !.recurrence_value = Null]
        ELSE impls[k]]

\* C15: in a completed batch an implementation whose amount is not a valid
\* number is eligible for no month of the trend, and the current-month total
\* and every trend value are what they would be were that amount absent.
C15_MalformedAsAbsent ==
    \A b \in Batches :
        batches[b].status = "resolved"
            => /\ \A k \in 1..Len(ImplsOf(b)), n \in 0..5 :
                    Malformed(ImplsOf(b)[k])
                        => ~isRecurrenceActiveForMonth(ImplsOf(b)[k],
                                                       subMonths(batches[b].today, n))
               /\ stats.totalRecurrence =
                    totalRecurrence(WithoutMalformed(ImplsOf(b)), batches[b].today)
               /\ recurrenceData =
                    recurrenceChartData(WithoutMalformed(ImplsOf(b)), batches[b].today)

\* the same for amounts that are the number NaN
C15_NaNAsAbsent ==
    \A b \in Batches :
        (batches[b].status = "resolved"
            /\ \A k \in 1..Len(ImplsOf(b)) : ImplsOf(b)[k].recurrence_value # Text)
            => /\ \A k \in 1..Len(ImplsOf(b)), n \in 0..5 :
                    Malformed(ImplsOf(b)[k])
                        => ~isRecurrenceActiveForMonth(ImplsOf(b)[k],
                                                       subMonths(batches[b].today, n))
               /\ stats.totalRecurrence =
                    totalRecurrence(WithoutMalformed(ImplsOf(b)), batches[b].today)
               /\ recurrenceData =
                    recurrenceChartData(WithoutMalformed(ImplsOf(b)), batches[b].today)

-----------------------------------------------------------------------------
(* Properties of the policies of implementation_billings (SpecDb) *)

\* the implementation the row is attached to belongs to the requester
AttachedToOwn(uid, row) ==
    /\ uid # Null
    /\ [id |-> row.implementation_id, user_id |-> Val(uid)] \in implementations

\* C16: every row of implementation_billings a statement returns, creates,
\* changes (before and after the change, a new attachment included) or
\* deletes is attached to an implementation whose user_id is the requester.
C16_OwnBillingsOnly ==
    /\ [](\A r \in request.returned \cup request.old \cup request.new :
            AttachedToOwn(request.uid, r))
    /\ [][\A r \in (implementation_billings' \ implementation_billings)
                    \cup (implementation_billings \ implementation_billings') :
            /\ AttachedToOwn(request'.uid, r)
            /\ r \in request'.old \cup request'.new]_vars

C16_Witness ==
    /\ request.op = "select"
    /\ request.uid = Some("u1")
    /\ request.returned # {}
    /\ \E r \in implementation_billings :
        [id |-> r.implementation_id, user_id |-> "u2"] \in implementations

-----------------------------------------------------------------------------
(* Properties of successive batches (Spec) *)

\* batch b ends in this step with the results and the date batch c had, c
\* being the only batch that has written so far
RepeatsOnlyWriter(b, c) ==
    /\ Completes(b)
    /\ c \in Batches \ {b}
    /\ batches[c].status = "resolved"
    /\ \A o \in Batches \ {c} : batches[o].status # "resolved"
    /\ batches'[b].values = batches[c].values
    /\ batches[b].today = batches[c].today

\* C17: what a completing batch writes is determined by its results and its
\* date alone: a batch that receives the results, on the same day, of the
\* batch whose snapshot is on display writes that same snapshot again,
\* although it started from another display than that batch did; and every
\* written field is the aggregate of the batch's own results.
C17_StatelessSnapshot ==
    [][\A b \in Batches :
        /\ \A c \in Batches : RepeatsOnlyWriter(b, c) => DisplayedNext = Displayed
        /\ Completes(b) =>
            LET r == Val(batches'[b].values)
                today == batches[b].today
            IN  /\ stats' = newStats(r, today)
                /\ chartData' = chartDataProcessed(OrEmpty(r.tasksLast7Days), today)
                /\ recurrenceData' = recurrenceChartData(OrEmpty(r.implementationsData), today)
                /\ todayTasks' = parsedTasks(OrEmpty(r.tasksTodayData))]_vars

C17_Witness ==
    /\ Len(batches) >= 2
    /\ batches[1].status = "resolved"
    /\ batches[2].status = "resolved"
    /\ batches[1].values = batches[2].values
    /\ batches[1].today = batches[2].today
    /\ stats.tasksCompletedWeek > 0
    /\ Len(ImplsOf(1)) > 0
    /\ Displayed # InitialSnapshot
    /\ Displayed = ResultOf(2)

-----------------------------------------------------------------------------
(* Frame of the computation (SpecData) *)

\* C18: the implementation list a completed batch holds after its pass is the
\* list the read returned, field by field and in the same order, and a call
\* of isRecurrenceActiveForMonth leaves its record as it was.
C18_RecordsUnchanged ==
    /\ [](\A b \in Batches :
            batches[b].status = "resolved"
                => batches[b].implementations =
                        OrEmpty(Val(batches[b].values).implementationsData))
    /\ [][impl' = impl /\ monthDate' = monthDate]_vars

C18_Witness ==
    /\ evalDone
    /\ evalResult
    /\ \E b \in Batches :
        /\ batches[b].status = "resolved"
        /\ Len(batches[b].implementations) = 2
        /\ batches[b].implementations[1] # batches[b].implementations[2]
        /\ IsNumber(stats.totalRecurrence)
        /\ Val(stats.totalRecurrence) > 0
        /\ stats.deliveryPendingCount > 0

-----------------------------------------------------------------------------
(* The loading flag (SpecFair) *)

\* C19: loading is true exactly as long as no started batch has settled;
\* once false it is never true again, also when a later batch starts; and
\* every started batch settles in the end, with loading false from then on.
C19_LoadingFlag ==
    /\ [](loading <=> \A b \in Batches : batches[b].status = "pending")
    /\ [][~loading => ~loading']_vars
    /\ \A b \in 1..MaxBatches :
        [](b \in Batches
            => <>(b \in Batches /\ batches[b].status # "pending" /\ ~loading))

C19_Witness ==
    /\ ~loading
    /\ Len(batches) >= 2
    /\ batches[1].status = "failed"
    /\ batches[2].status = "pending"

-----------------------------------------------------------------------------
(* The trend and the total of one snapshot (SpecAgg) *)

\* C21: in the snapshot a completed batch has written, the newest entry of
\* the six-month trend holds the value of stats.totalRecurrence.
C21_TrendEndsAtTotal ==
    \A b \in Batches :
        batches[b].status = "resolved"
            => /\ Len(recurrenceData) = 6
               /\ recurrenceData[6].value = stats.totalRecurrence

C21_Witness ==
    \E b \in Batches :
        /\ batches[b].status = "resolved"
        /\ Len(ImplsOf(b)) = 2
        /\ Val(stats.totalRecurrence) > 0
        /\ recurrenceData[5].value # recurrenceData[6].value
        /\ recurrenceData[6].value = stats.totalRecurrence

-----------------------------------------------------------------------------
(* Properties of the login form (SpecAuth) *)

\* the texts of EmailSet that are email addresses
ValidEmails ==
    {<<"a", "@", "a", ".", "a", "a">>,
     <<"a", ".", "a", "@", "a", ".", "a", "a">>}

\* the pair satisfies loginSchema
ValidPair(e, p) == e \in ValidEmails /\ Len(p) >= 6

\* C22: every call of signIn was made with a valid email and a password of
\* at least 6 characters; a submit of a pair that fails validation records an
\* error for exactly the failing fields and changes nothing else: loading
\* stays false, no call of signIn, no toast, no navigation.
C22_ValidatedSignIn ==
    /\ [](\A k \in 1..Len(signIns) : ValidPair(signIns[k].email, signIns[k].password))
    /\ [][(~ValidPair(email, password) /\ email' = email /\ password' = password)
            => /\ (errors'.email # Null) <=> (email \notin ValidEmails)
               /\ (errors'.password # Null) <=> (Len(password) < 6)
               /\ authLoading = FALSE /\ authLoading' = FALSE
               /\ signIns' = signIns
               /\ toasts' = toasts
               /\ location' = location]_vars

C22_Witness ==
    /\ ~ValidPair(email, password)
    /\ errors.email # Null
    /\ errors.password = Null
    /\ Len(password) = 6
    /\ Len(signIns) = 1
    /\ signIns[1].status = "error"
    /\ Len(toasts) = 1
    /\ ~authLoading
    /\ location = "/auth"

\* call k of signIn returns in this step, with an error or without
ReturnsError(k) ==
    /\ k \in 1..Len(signIns)
    /\ signIns[k].status = "pending"
    /\ signIns'[k].status = "error"

ReturnsOk(k) ==
    /\ k \in 1..Len(signIns)
    /\ signIns[k].status = "pending"
    /\ signIns'[k].status = "ok"

\* C23: the route is '/' only if a call of signIn has returned without an
\* error, and it changes only in the step in which one does; when a call
\* returns an error a destructive toast is added, the route stays that of
\* the form, and the form is enabled for another submit.
C23_NavigateOnSuccessOnly ==
    /\ [](location = "/" => \E k \in 1..Len(signIns) : signIns[k].status = "ok")
    /\ [][/\ location' # location
                => location' = "/" /\ \E k \in 1..MaxSignIns : ReturnsOk(k)
          /\ \A k \in 1..MaxSignIns :
                ReturnsError(k)
                    => /\ Len(toasts') = Len(toasts) + 1
                       /\ toasts'[Len(toasts')].variant = "destructive"
                       /\ location = "/auth" /\ location' = "/auth"
                       /\ ~authLoading']_vars

C23_Witness ==
    /\ Len(signIns) = 2
    /\ signIns[1].status = "error"
    /\ signIns[2].status = "ok"
    /\ Len(toasts) = 2
    /\ toasts[1].variant = "destructive"
    /\ toasts[2].variant = "default"
    /\ location = "/"

\* the calls of signIn that have not returned
InFlight == {k \in 1..Len(signIns) : signIns[k].status = "pending"}

\* C24: the form's loading is true exactly while a call of signIn is in
\* flight, and is false after the step in which the call returns, with an
\* error or without; while it is true the email and the password cannot be
\* changed and no call of signIn is made, so at most one call is in flight.
C24_LoadingWhileInFlight ==
    /\ [](authLoading <=> InFlight # {})
    /\ [](Cardinality(InFlight) <= 1)
    /\ [][/\ authLoading
                => /\ email' = email
                   /\ password' = password
                   /\ Len(signIns') = Len(signIns)
          /\ \A k \in 1..MaxSignIns :
                (ReturnsOk(k) \/ ReturnsError(k)) => authLoading /\ ~authLoading']_vars

C24_Witness ==
    /\ authLoading
    /\ Len(signIns) = 2
    /\ signIns[1].status = "error"
    /\ signIns[2].status = "pending"
    /\ location = "/auth"

-----------------------------------------------------------------------------
(* Properties of the foreign key (SpecRef) *)

ImplementationExists(T, id) == \E i \in T : i.id = id

\* C25: every row of implementation_billings references a row of
\* implementations; a row is added only for an implementation that exists,
\* and a step that removes an implementation removes exactly its billing
\* rows with it.
C25_BillingsReferenceImplementations ==
    /\ [](\A r \in implementation_billings :
            ImplementationExists(implementations, r.implementation_id))
    /\ [][/\ \A r \in implementation_billings' \ implementation_billings :
                ImplementationExists(implementations, r.implementation_id)
          /\ \A i \in implementations :
                ~ImplementationExists(implementations', i.id)
                    => implementation_billings' =
                        {r \in implementation_billings : r.implementation_id # i.id}]_vars

C25_Witness ==
    /\ request.op = "cascade"
    /\ Cardinality(request.old) = 2
    /\ implementation_billings = {}
    /\ Cardinality(implementations) = 1

=============================================================================
